---- MODULE Spec2Model ----
(***************************************************************************)
(* Module Federation demo: the shell (host) composing three remotes, the   *)
(* suspending resource cache of the remotes, the ErrorBoundary, the        *)
(* window event bus (addToCart, showNotification, moduleChange), the       *)
(* notification list with its auto-dismiss timer, and the cart.            *)
(*                                                                         *)
(* Nine specifications share the variables:                                *)
(*   Spec      the composed shell as shipped (App + lazy remotes), all of  *)
(*             its events taken at one reading of the clock: nothing the   *)
(*             composition does reads notifications, timers or now;        *)
(*   SpecToast the App's notification list in time: tab clicks,            *)
(*             showNotification events dispatched on window (as in         *)
(*             App.test.tsx), the auto-dismiss timer, the clock;           *)
(*   SpecRes   the resource module driven call by call (createResource,    *)
(*             getResource, read, clearResourceCache) with its inputs      *)
(*             drawn from small sets;                                      *)
(*   SpecCart  the ShoppingCart component mounted on its own (as on :3002  *)
(*             and in ShoppingCart.test.tsx), events dispatched on window; *)
(*   SpecBus   the window as event bus: listeners added and removed,       *)
(*             events of the three types dispatched;                       *)
(*   SpecNav   the navigation of the shell observed by a moduleChange      *)
(*             listener, with the prefetch on hover;                       *)
(*   SpecProducts  the displayed products catalog with listeners on        *)
(*             addToCart and showNotification (as in the catalog's test);  *)
(*   SpecToastFair the notification list with timers that fire and time    *)
(*             that passes (weak fairness), arrivals ending;               *)
(*   SpecFair  tab clicks, imports and delay timers, with imports that     *)
(*             settle and timers that fire (weak fairness).                *)
(***************************************************************************)
EXTENDS Integers, Sequences, FiniteSets, TLC

VARIABLES
    activeModule,   \* App: useState<ModuleType>("products")
    notifications,  \* App: useState<Notification[]>([]), newest first
    timers,         \* pending auto-dismiss setTimeout deadlines (ms)
    now,            \* the clock read by Date.now() (ms)
    hasError,       \* ErrorBoundary.state.hasError
    error,          \* ErrorBoundary.state.error
    lazy,           \* status of the three React.lazy components
    resourceCache,  \* per remote: its module-level Map key -> Resource
    resources,      \* every Resource object created so far, by identity
    cartItems,      \* ShoppingCart: useState<CartItem[]>, <<>> when unmounted
    listeners,      \* window listeners per event type, in registration order
    lastCall        \* the last call made on the resource module and its outcome

vars == <<activeModule, notifications, timers, now, hasError, error, lazy,
          resourceCache, resources, cartItems, listeners, lastCall>>

shellVars == <<activeModule, notifications, timers, now, hasError, error, lazy>>

-----------------------------------------------------------------------------
(* Bounds of the model *)

MaxTime == 4000       \* the clock stops advancing here
TickMs == 1000        \* granularity of the passage of time
MaxResources == 3     \* Resource objects created in SpecRes
MaxProductId == 2     \* products 1..MaxProductId can be added
MaxQuantity == 3      \* cap on a cart entry's quantity

(* Program constants *)

DismissDelay == 3000  \* setTimeout(..., 3000) of the auto-remove effect
MaxKept == 2          \* prev.slice(0, 2)
MacBookId == 1        \* initial cart item ids
AirPodsId == 7

Modules == {"products", "cart", "dashboard"}
ModuleOrder == <<"products", "cart", "dashboard">>
EventTypes == {"addToCart", "showNotification", "moduleChange"}
Errors == {"e1", "e2"}
Values == {"v1", "v2"}
ProductIds == 1..MaxProductId
Spies == {"spy1", "spy2"}   \* listeners registered by the tests (vi.fn)

Min(a, b) == IF a <= b THEN a ELSE b
Max(a, b) == IF a >= b THEN a ELSE b

-----------------------------------------------------------------------------
(* Resource: createResource / read / getResource / clearResourceCache *)

\* A key is the string split in tokens, so that startsWith can be computed.
Key(prefix, rest) == <<prefix, "-", rest>>
Keys == {Key(m, "initial") : m \in Modules}
StartsWith(key, prefix) ==
    /\ Len(prefix) <= Len(key)
    /\ SubSeq(key, 1, Len(prefix)) = prefix

\* let currentResourceKey = "cart-initial" (and the two siblings)
currentResourceKey(m) == Key(m, "initial")

\* a delay whose promise may also reject
OutcomesMayReject(fn) ==
    {[kind |-> "resolve", value |-> v] : v \in Values}
      \cup {[kind |-> "reject", value |-> e] : e \in Errors}

\* What the promise returned by asyncFn() can settle to.
\* delay(ms) = new Promise((resolve) => setTimeout(resolve, ms)): resolves only.
Outcomes(fn) ==
    IF fn = "delay"
    THEN {[kind |-> "resolve", value |-> "undefined"]}
    ELSE {[kind |-> "resolve", value |-> v] : v \in Values}
         \cup {[kind |-> "reject", value |-> e] : e \in Errors}

\* createResource: status = "pending", result unset, suspender = the promise
\* asyncFn().then(...), which is the resource's own (identified by its index).
NewResource(fn) == [status |-> "pending", result |-> "unset", fn |-> fn]

createResource(res, fn) == Append(res, NewResource(fn))

\* The two callbacks given to .then
Settled(r, outcome) ==
    IF outcome.kind = "resolve"
    THEN [r EXCEPT !.status = "success", !.result = outcome.value]
    ELSE [r EXCEPT !.status = "error", !.result = outcome.value]

\* read() that returns the stored error instead of throwing it
ReadReturnsError(res, rid) ==
    LET r == res[rid] IN
    IF r.status = "pending"
    THEN [kind |-> "throw", what |-> "suspender", value |-> rid]
    ELSE [kind |-> "return", what |-> "value", value |-> r.result]

\* read(): what it throws or returns
Read(res, rid) ==
    LET r == res[rid] IN
    IF r.status = "pending"
    THEN [kind |-> "throw", what |-> "suspender", value |-> rid]
    ELSE IF r.status = "error"
    THEN [kind |-> "throw", what |-> "error", value |-> r.result]
    ELSE IF r.status = "success"
    THEN [kind |-> "return", what |-> "value", value |-> r.result]
    ELSE [kind |-> "throw", what |-> "error", value |-> "Invalid resource state"]

\* getResource without the has(key) test: a new resource on every call
getResourceAlways(cache, res, key) ==
    [cache |-> [k \in DOMAIN cache \cup {key} |->
                   IF k = key THEN Len(res) + 1 ELSE cache[k]],
     res |-> createResource(res, "delay"),
     ret |-> Len(res) + 1]

\* getResource(key, delayMs) on one remote's Map: the new Map, the new
\* resource store and the Resource returned.
getResource(cache, res, key) ==
    IF key \notin DOMAIN cache
    THEN [cache |-> [k \in DOMAIN cache \cup {key} |->
                        IF k = key THEN Len(res) + 1 ELSE cache[k]],
          res |-> createResource(res, "delay"),
          ret |-> Len(res) + 1]
    ELSE [cache |-> cache, res |-> res, ret |-> cache[key]]

EmptyMap == [k \in {} |-> 0]

\* the disabled listener's invalidation: delete the keys of the remote's prefix
clearByPrefix(cache) ==
    [k \in {x \in DOMAIN cache : ~StartsWith(x, <<"cart", "-">>)} |-> cache[k]]

\* clearResourceCache(): resourceCache.clear()
clearResourceCache(cache) == EmptyMap

-----------------------------------------------------------------------------
(* Event payloads, notification list, cart list *)

Capitalized(m) ==
    CASE m = "products" -> "Products"
      [] m = "cart" -> "Cart"
      [] m = "dashboard" -> "Dashboard"

\* MOCK_PRODUCTS (ProductsCatalog)
ProductName(id) ==
    CASE id = 1 -> "Laptop"
      [] id = 2 -> "T-Shirt"
      [] id = 3 -> "Book"
      [] id = 4 -> "Phone"
      [] id = 5 -> "Jeans"
      [] OTHER -> "Cookbook"

\* prices in cents
ProductPrice(id) ==
    CASE id = 1 -> 99999
      [] id = 2 -> 1999
      [] id = 3 -> 1299
      [] id = 4 -> 69999
      [] id = 5 -> 4999
      [] OTHER -> 2499

\* ShoppingCart: the useState initial value
INITIAL_CART_ITEMS ==
    << [id |-> MacBookId, name |-> "MacBook Pro M3", price |-> 249999, quantity |-> 1],
       [id |-> AirPodsId, name |-> "AirPods Pro", price |-> 24999, quantity |-> 2] >>

\* ProductsCatalog.handleAddToCart: the CartItem built from the product
CartItemOf(p) ==
    [id |-> p, name |-> ProductName(p), price |-> ProductPrice(p), quantity |-> 1]

\* Array.prototype.slice(0, n) for n >= 0 and slice(0, -1)
Slice(seq, n) == SubSeq(seq, 1, Min(n, Len(seq)))
SliceButLast(seq) == SubSeq(seq, 1, Max(Len(seq) - 1, 0))

\* an updater that keeps the whole previous list
AddNotificationKeepAll(prev, t, type, message) ==
    <<[id |-> t, type |-> type, message |-> message]>> \o prev

\* setNotifications((prev) => [{ id: Date.now().toString(), type, message },
\*                             ...prev.slice(0, 2)])
AddNotification(prev, t, type, message) ==
    <<[id |-> t, type |-> type, message |-> message]>> \o Slice(prev, MaxKept)

\* an updater without the lookup of an existing entry: always a new entry
handleAddToCartAppend(prev, cartItem) == Append(prev, cartItem)

\* ShoppingCart.handleAddToCart: the setCartItems updater
handleAddToCart(prev, cartItem) ==
    IF \E i \in 1..Len(prev) : prev[i].id = cartItem.id
    THEN [i \in 1..Len(prev) |->
            IF prev[i].id = cartItem.id
            THEN [prev[i] EXCEPT !.quantity = prev[i].quantity + cartItem.quantity]
            ELSE prev[i]]
    ELSE Append(prev, cartItem)

\* an updater without Math.max(1, ...)
updateQuantityNoFloor(prev, id, delta) ==
    [i \in 1..Len(prev) |->
        IF prev[i].id = id
        THEN [prev[i] EXCEPT !.quantity = prev[i].quantity + delta]
        ELSE prev[i]]

\* ShoppingCart.updateQuantity: the setCartItems updater
updateQuantity(prev, id, delta) ==
    [i \in 1..Len(prev) |->
        IF prev[i].id = id
        THEN [prev[i] EXCEPT !.quantity = Max(1, prev[i].quantity + delta)]
        ELSE prev[i]]

\* ShoppingCart.removeItem: prev.filter((item) => item.id !== id)
RECURSIVE Filter(_, _)
Filter(seq, id) ==
    IF seq = <<>> THEN <<>>
    ELSE IF Head(seq).id # id
         THEN <<Head(seq)>> \o Filter(Tail(seq), id)
         ELSE Filter(Tail(seq), id)

\* a removal by splice(findIndex(...), 1): for an id that is not in the cart
\* the index is -1 and the last entry goes
removeItemSplice(prev, id) ==
    IF \E i \in 1..Len(prev) : prev[i].id = id
    THEN Filter(prev, id)
    ELSE SliceButLast(prev)

removeItem(prev, id) == Filter(prev, id)

-----------------------------------------------------------------------------
(* The window event bus *)

\* A CustomEvent created without detail: event.detail is null
NullDetail == [null |-> TRUE]
IsNull(detail) == "null" \in DOMAIN detail

\* What one registered handler does to the page state s = [n, c, t, calls,
\* reported]: n the notification list, c the cart list, t whether
\* setNotifications ran, calls the invocations so far, reported the
\* exceptions thrown by handlers.  handleNotification destructures
\* event.detail, which throws a TypeError on null; the handlers registered by
\* the tests (spies) only record their call.
RunHandler(h, detail, s, clock) ==
    LET called == [s EXCEPT !.calls = Append(@, [handler |-> h, detail |-> detail])]
    IN IF h = "handleNotification"
       THEN IF IsNull(detail)
            THEN [called EXCEPT !.reported = Append(@, [handler |-> h, error |-> "TypeError"])]
            ELSE [called EXCEPT !.n = AddNotification(s.n, clock, detail.type, detail.message),
                                !.t = TRUE]
       ELSE IF h = "handleAddToCart"
       THEN [called EXCEPT !.c = handleAddToCart(s.c, detail)]
       ELSE called

\* window.dispatchEvent: every listener registered for the type, in
\* registration order, synchronously; an exception thrown by a listener is
\* reported and the remaining listeners still run.
RECURSIVE RunHandlers(_, _, _, _)
RunHandlers(hs, detail, s, clock) ==
    IF hs = <<>> THEN s
    ELSE RunHandlers(Tail(hs), detail, RunHandler(Head(hs), detail, s, clock), clock)

\* dispatchEvent also notes the event and the invocations it made
dispatchEvent(ls, type, detail, s, clock) ==
    LET r == RunHandlers(ls[type], detail, s, clock)
    IN [r EXCEPT !.events = Append(@, [type |-> type, detail |-> detail,
                                       calls |-> SubSeq(r.calls, Len(s.calls) + 1,
                                                        Len(r.calls))])]

\* a registration that does not look for the listener in the list
addEventListenerAgain(ls, type, h) == [ls EXCEPT ![type] = Append(@, h)]

\* addEventListener / removeEventListener
addEventListener(ls, type, h) ==
    IF \E i \in 1..Len(ls[type]) : ls[type][i] = h
    THEN ls
    ELSE [ls EXCEPT ![type] = Append(@, h)]

\* an effect without cleanup: the listener stays registered
removeEventListenerNever(ls, type, h) == ls

removeEventListener(ls, type, h) ==
    [ls EXCEPT ![type] = SelectSeq(@, LAMBDA x : x # h)]

-----------------------------------------------------------------------------
(* The shell: lazy remotes, ErrorBoundary, Suspense, rendering *)

NoError == [remote |-> "none", msg |-> "undefined"]

\* the import promise without its .catch: a failed import rejects
LazyPromiseNoCatch(ok) == IF ok THEN "ready" ELSE "rejected"

\* The promise given to React.lazy: import(...).catch((error) => ({ default:
\* () => <ModuleFallback ... /> })).  ok: whether the dynamic import succeeds.
LazyPromise(ok) == IF ok THEN "ready" ELSE "fallback"

\* ModuleFallback props declared by each lazy loader
FallbackTitle(m) == <<Capitalized(m), " Module Unavailable">>
FallbackMessage(m) == <<"The ", m, " service is currently unavailable.">>

\* The loaders pass title and message only: the onRetry prop is undefined
FallbackOnRetry(m) == "undefined"

\* ModuleFallback: the card, with its "Retry Connection" button when an
\* onRetry callback is given
ModuleFallback(title, message, onRetry) ==
    [kind |-> "ModuleFallback", title |-> title, message |-> message,
     retry |-> onRetry # "undefined"]

\* ErrorBoundary.getDerivedStateFromError
getDerivedStateFromError(e) == [hasError |-> TRUE, error |-> e]

\* The Retry button: this.setState({ hasError: false, error: undefined })
RetryState == [hasError |-> FALSE, error |-> NoError]

\* a boundary keyed by the active module: a new instance on every tab click
BoundaryKeyed(st) == [hasError |-> FALSE, error |-> NoError]

\* <ErrorBoundary> has no key: React keeps the instance, and its state, when
\* renderModuleContent returns a new element for another activeModule.
BoundaryOnModuleChange(st) == st

\* One render pass of <ErrorBoundary><Suspense key={a}><Component/></Suspense>
\* </ErrorBoundary> for active module a: what it does to the boundary, to the
\* lazy components and to the remote's resource cache.
Render(a, he, er, lz, rc, res) ==
    LET same == [hasError |-> he, error |-> er, lazy |-> lz, cache |-> rc, res |-> res]
    IN
    IF he THEN same                       \* render() returns the fallback
    ELSE IF lz[a] = "uninit"              \* first render: the loader runs
    THEN [same EXCEPT !.lazy = [lz EXCEPT ![a] = "pending"]]
    ELSE IF lz[a] = "rejected"            \* lazy rethrows the rejection
    THEN LET st == getDerivedStateFromError([remote |-> a, msg |-> "import failed"])
         IN [same EXCEPT !.hasError = st.hasError, !.error = st.error]
    ELSE IF lz[a] = "ready"               \* Streaming<Remote>: getResource; read
    THEN LET g == getResource(rc[a], res, currentResourceKey(a))
             rd == Read(g.res, g.ret)
             st == getDerivedStateFromError([remote |-> a, msg |-> rd.value])
         IN IF rd.kind = "throw" /\ rd.what = "error"
            THEN [same EXCEPT !.hasError = st.hasError, !.error = st.error,
                              !.cache = [rc EXCEPT ![a] = g.cache], !.res = g.res]
            ELSE [same EXCEPT !.cache = [rc EXCEPT ![a] = g.cache], !.res = g.res]
    ELSE same                             \* pending or fallback component

\* The remote's own component (ProductsCatalog, ShoppingCart, UserDashboard)
\* is mounted: the boundary is healthy, the code is loaded, read() returned.
ContentShownIn(a, he, lz, rc, res) ==
    /\ ~he
    /\ lz[a] = "ready"
    /\ currentResourceKey(a) \in DOMAIN rc[a]
    /\ Read(res, rc[a][currentResourceKey(a)]).kind = "return"

ContentShown(m) ==
    activeModule = m /\ ContentShownIn(m, hasError, lazy, resourceCache, resources)

\* one skeleton for every module, as in <Suspense fallback={<ProductsSkeleton />}>
getSkeletonProducts(a) == "ProductsSkeleton"

\* getSkeleton
getSkeleton(a) ==
    CASE a = "products" -> "ProductsSkeleton"
      [] a = "cart" -> "CartSkeleton"
      [] a = "dashboard" -> "DashboardSkeleton"
      [] OTHER -> "ProductsSkeleton"

\* What the main area shows
View ==
    IF hasError THEN [kind |-> "ErrorFallback"]
    ELSE IF lazy[activeModule] = "fallback"
    THEN ModuleFallback(FallbackTitle(activeModule), FallbackMessage(activeModule),
                        FallbackOnRetry(activeModule))
    ELSE IF ContentShown(activeModule)
    THEN [kind |-> "Content", remote |-> activeModule]
    ELSE [kind |-> "Skeleton", skeleton |-> getSkeleton(activeModule)]

CartMounted == \E i \in 1..Len(listeners["addToCart"]) :
                   listeners["addToCart"][i] = "handleAddToCart"

\* the effect without its test of the empty list: a timer after every commit
AutoRemoveEffectAlways(ts, n, clock) == {clock + DismissDelay}

\* The auto-remove effect, re-run on every change of notifications: the
\* cleanup clears the timer of the previous run, then (list not empty) a new
\* 3000 ms timer is set.
AutoRemoveEffect(ts, n, clock) ==
    IF Len(n) = 0 THEN {} ELSE {clock + DismissDelay}

\* What the spies saw of a handler's dispatches: their mock.calls change only
\* when one of them was invoked.
SpyLog(s) ==
    IF \E i \in 1..Len(s.calls) : s.calls[i].handler \in Spies
    THEN [op |-> "events", events |-> s.events]
    ELSE lastCall

\* a commit with the cart's entries held outside the component: they outlive
\* the unmounting of the cart view
ShellCommitKeepsCart(a, r, s) ==
    /\ activeModule' = a
    /\ hasError' = r.hasError
    /\ error' = r.error
    /\ lazy' = r.lazy
    /\ resourceCache' = r.cache
    /\ resources' = r.res
    /\ LET shown == a = "cart" /\ ContentShownIn(a, r.hasError, r.lazy, r.cache, r.res)
       IN /\ cartItems' = IF shown
                          THEN IF CartMounted \/ s.c # <<>> THEN s.c
                               ELSE INITIAL_CART_ITEMS
                          ELSE s.c
          /\ listeners' = IF shown
                          THEN addEventListener(listeners, "addToCart", "handleAddToCart")
                          ELSE removeEventListener(listeners, "addToCart", "handleAddToCart")
    /\ notifications' = s.n
    /\ timers' = IF s.t THEN AutoRemoveEffect(timers, s.n, now) ELSE timers
    /\ lastCall' = SpyLog(s)
    /\ UNCHANGED now

\* Commit of one shell step: a the active module, r the render result,
\* s = [n, c, t] the notification list, the cart list and whether
\* setNotifications ran.
ShellCommit(a, r, s) ==
    /\ activeModule' = a
    /\ hasError' = r.hasError
    /\ error' = r.error
    /\ lazy' = r.lazy
    /\ resourceCache' = r.cache
    /\ resources' = r.res
    /\ LET shown == a = "cart" /\ ContentShownIn(a, r.hasError, r.lazy, r.cache, r.res)
       IN /\ cartItems' = IF shown
                          THEN IF CartMounted THEN s.c ELSE INITIAL_CART_ITEMS
                          ELSE <<>>
          /\ listeners' = IF shown
                          THEN addEventListener(listeners, "addToCart", "handleAddToCart")
                          ELSE removeEventListener(listeners, "addToCart", "handleAddToCart")
    /\ notifications' = s.n
    /\ timers' = IF s.t THEN AutoRemoveEffect(timers, s.n, now) ELSE timers
    /\ lastCall' = SpyLog(s)
    /\ UNCHANGED now

Page == [n |-> notifications, c |-> cartItems, t |-> FALSE,
         calls |-> <<>>, reported |-> <<>>, events |-> <<>>]

\* a tab click that dispatches moduleChange with the module being left
handleModuleChangeStale(m) ==
    LET s1 == dispatchEvent(listeners, "moduleChange", [newModule |-> activeModule],
                            Page, now)
        s2 == [s1 EXCEPT !.n = AddNotification(s1.n, now, "info",
                                    <<Capitalized(m), " module loaded">>),
                         !.t = TRUE]
    IN ShellCommit(m, Render(m, hasError, error, lazy, resourceCache, resources), s2)

\* a tab click with the disabled invalidation listener switched on: the
\* selected remote's cache entries are deleted before it renders
handleModuleChangeInvalidating(m) ==
    LET s1 == dispatchEvent(listeners, "moduleChange", [newModule |-> m], Page, now)
        s2 == [s1 EXCEPT !.n = AddNotification(s1.n, now, "info",
                                    <<Capitalized(m), " module loaded">>),
                         !.t = TRUE]
        st == BoundaryOnModuleChange([hasError |-> hasError, error |-> error])
    IN ShellCommit(m, Render(m, st.hasError, st.error, lazy,
                             [resourceCache EXCEPT ![m] = clearResourceCache(@)],
                             resources), s2)

\* App.handleModuleChange(moduleId): a click on a navigation tab
handleModuleChange(m) ==
    LET s1 == dispatchEvent(listeners, "moduleChange", [newModule |-> m], Page, now)
        s2 == [s1 EXCEPT !.n = AddNotification(s1.n, now, "info",
                                    <<Capitalized(m), " module loaded">>),
                         !.t = TRUE]
        st == BoundaryOnModuleChange([hasError |-> hasError, error |-> error])
    IN ShellCommit(m, Render(m, st.hasError, st.error, lazy, resourceCache, resources), s2)

\* The dynamic import of remote m settles
ImportSettles(m, ok) ==
    /\ lazy[m] = "pending"
    /\ ShellCommit(activeModule,
                   Render(activeModule, hasError, error,
                          [lazy EXCEPT ![m] = LazyPromise(ok)], resourceCache, resources),
                   Page)

\* a timer that is cancelled when the remote that started it is unmounted
DelayFiresWhileMounted(rid) ==
    /\ rid \in 1..Len(resources)
    /\ resources[rid].status = "pending"
    /\ currentResourceKey(activeModule) \in DOMAIN resourceCache[activeModule]
    /\ resourceCache[activeModule][currentResourceKey(activeModule)] = rid
    /\ \E o \in Outcomes(resources[rid].fn) :
         ShellCommit(activeModule,
                     Render(activeModule, hasError, error, lazy, resourceCache,
                            [resources EXCEPT ![rid] = Settled(@, o)]),
                     Page)

\* The delay timer of a pending resource fires: the .then callback runs
DelayFires(rid) ==
    /\ rid \in 1..Len(resources)
    /\ resources[rid].status = "pending"
    /\ \E o \in Outcomes(resources[rid].fn) :
         ShellCommit(activeModule,
                     Render(activeModule, hasError, error, lazy, resourceCache,
                            [resources EXCEPT ![rid] = Settled(@, o)]),
                     Page)

\* The active remote's code throws while rendering
RenderThrows(e) ==
    /\ ~hasError
    /\ lazy[activeModule] = "ready"
    /\ LET st == getDerivedStateFromError([remote |-> activeModule, msg |-> e])
       IN ShellCommit(activeModule,
                      [hasError |-> st.hasError, error |-> st.error, lazy |-> lazy,
                       cache |-> resourceCache, res |-> resources],
                      Page)

\* A click on the Retry button of the ErrorBoundary fallback
Retry ==
    /\ hasError
    /\ ShellCommit(activeModule,
                   Render(activeModule, RetryState.hasError, RetryState.error,
                          lazy, resourceCache, resources),
                   Page)

\* a handler that announces the product before it dispatches addToCart
AddToCartClickNotifyFirst(p) ==
    /\ ContentShown("products")
    /\ LET s1 == dispatchEvent(listeners, "showNotification",
                               [type |-> "success",
                                message |-> <<ProductName(p), " added to cart">>],
                               Page, now)
           s2 == dispatchEvent(listeners, "addToCart", CartItemOf(p), s1, now)
       IN ShellCommit(activeModule,
                      Render(activeModule, hasError, error, lazy, resourceCache, resources),
                      s2)

\* ProductsCatalog.handleAddToCart(product): a click on Add
AddToCartClick(p) ==
    /\ ContentShown("products")
    /\ LET s1 == dispatchEvent(listeners, "addToCart", CartItemOf(p), Page, now)
           s2 == dispatchEvent(listeners, "showNotification",
                               [type |-> "success",
                                message |-> <<ProductName(p), " added to cart">>],
                               s1, now)
       IN ShellCommit(activeModule,
                      Render(activeModule, hasError, error, lazy, resourceCache, resources),
                      s2)

InCart(id) == \E i \in 1..Len(cartItems) : cartItems[i].id = id
QuantityOf(id) == LET i == CHOOSE i \in 1..Len(cartItems) : cartItems[i].id = id
                  IN cartItems[i].quantity

Same == Render(activeModule, hasError, error, lazy, resourceCache, resources)

\* CartItemRow: the - and + buttons (- is disabled at quantity <= 1)
QuantityClick(id, delta) ==
    /\ CartMounted
    /\ InCart(id)
    /\ delta = -1 => QuantityOf(id) > 1
    /\ delta = 1 => QuantityOf(id) < MaxQuantity
    /\ ShellCommit(activeModule, Same,
                   [Page EXCEPT !.c = updateQuantity(cartItems, id, delta)])

\* CartItemRow: the remove button
RemoveClick(id) ==
    /\ CartMounted
    /\ InCart(id)
    /\ ShellCommit(activeModule, Same, [Page EXCEPT !.c = removeItem(cartItems, id)])

\* ShoppingCart.handleCheckout
CheckoutClick ==
    /\ CartMounted
    /\ cartItems # <<>>
    /\ ShellCommit(activeModule, Same,
                   dispatchEvent(listeners, "showNotification",
                                 [type |-> "success",
                                  message |-> <<"Checkout feature coming soon!">>],
                                 Page, now))

\* The auto-remove timer fires: setNotifications((prev) => prev.slice(0, -1))
AutoRemoveFires ==
    \E d \in timers :
      /\ d <= now
      /\ notifications' = SliceButLast(notifications)
      /\ timers' = AutoRemoveEffect(timers \ {d}, notifications', now)
      /\ UNCHANGED <<activeModule, now, hasError, error, lazy, resourceCache,
                     resources, cartItems, listeners, lastCall>>

\* Time passes, never beyond a pending timer's deadline
Tick ==
    /\ \A d \in timers : d > now
    /\ LET t == IF timers = {} THEN now + TickMs
                ELSE Min(now + TickMs, CHOOSE d \in timers : \A x \in timers : d <= x)
       IN /\ t <= MaxTime
          /\ now' = t
    /\ UNCHANGED <<activeModule, notifications, timers, hasError, error, lazy,
                   resourceCache, resources, cartItems, listeners, lastCall>>

NoCall == [op |-> "none"]

Init ==
    /\ activeModule = "products"
    /\ notifications = <<>>
    /\ timers = {}
    /\ now = 0
    /\ hasError = FALSE
    /\ error = NoError
    \* the first render of App has started the import of the products remote
    /\ lazy = [m \in Modules |-> IF m = "products" THEN "pending" ELSE "uninit"]
    /\ resourceCache = [m \in Modules |-> EmptyMap]
    /\ resources = <<>>
    /\ cartItems = <<>>
    /\ listeners = [t \in EventTypes |->
                      IF t = "showNotification" THEN <<"handleNotification">> ELSE <<>>]
    /\ lastCall = NoCall

\* The shell as composed: user clicks, imports and delays settling, a remote
\* throwing while it renders.
Next ==
    \/ \E m \in Modules : handleModuleChange(m)
    \/ \E m \in Modules, ok \in BOOLEAN : ImportSettles(m, ok)
    \/ \E rid \in 1..Len(resources) : DelayFires(rid)
    \/ \E e \in Errors : RenderThrows(e)
    \/ Retry
    \/ \E p \in ProductIds : AddToCartClick(p)
    \/ \E id \in ProductIds \cup {AirPodsId}, delta \in {-1, 1} : QuantityClick(id, delta)
    \/ \E id \in ProductIds \cup {AirPodsId} : RemoveClick(id)
    \/ CheckoutClick

Spec == Init /\ [][Next]_vars

-----------------------------------------------------------------------------
(* SpecFair: the shell's navigation with what the event loop guarantees: a  *)
(* started dynamic import settles (loaded, or a network error), and the     *)
(* delay timer of a pending resource fires.  No remote throws on its own.   *)

NextFair ==
    \/ \E m \in Modules : handleModuleChange(m)
    \/ \E m \in Modules, ok \in BOOLEAN : ImportSettles(m, ok)
    \/ \E rid \in 1..Len(resources) : DelayFires(rid)

SpecFair ==
    /\ Init
    /\ [][NextFair]_vars
    /\ \A m \in Modules : WF_vars(\E ok \in BOOLEAN : ImportSettles(m, ok))
    /\ \A rid \in 1..Cardinality(Modules) : WF_vars(DelayFires(rid))

-----------------------------------------------------------------------------
(* SpecToast: the notification list in time *)

NotificationTypes == {"success", "error", "info"}

\* a notification listener that lives under the Suspense boundary: it is
\* registered only while the remote's content is mounted
ShowNotificationEventInContent(type, message) ==
    /\ View.kind = "Content"
    /\ ShellCommit(activeModule, Same,
                   dispatchEvent(listeners, "showNotification",
                                 [type |-> type, message |-> message], Page, now))

\* window.dispatchEvent(new CustomEvent("showNotification", { detail }))
ShowNotificationEvent(type, message) ==
    ShellCommit(activeModule, Same,
                dispatchEvent(listeners, "showNotification",
                              [type |-> type, message |-> message], Page, now))

NextToast ==
    \/ \E m \in Modules : handleModuleChange(m)
    \/ \E type \in NotificationTypes : ShowNotificationEvent(type, <<"Item added!">>)
    \/ AutoRemoveFires
    \/ Tick

SpecToast == Init /\ [][NextToast]_vars

-----------------------------------------------------------------------------
(* SpecToastFair: the notifications in time, with the timers of the event  *)
(* loop: time passes and an expired timer's callback runs.  Notifications  *)
(* arrive only before ArrivalsEnd; afterwards the clock still runs up to   *)
(* the last pending deadline.                                               *)

ArrivalsEnd == 2000

\* Time passes while notifications may still arrive or a timer is pending
TimePasses ==
    /\ \A d \in timers : d > now
    /\ timers # {} \/ now < ArrivalsEnd
    /\ now' = IF timers = {} THEN now + TickMs
              ELSE Min(now + TickMs, CHOOSE d \in timers : \A x \in timers : d <= x)
    /\ UNCHANGED <<activeModule, notifications, timers, hasError, error, lazy,
                   resourceCache, resources, cartItems, listeners, lastCall>>

NextToastFair ==
    \/ \E m \in Modules : now < ArrivalsEnd /\ handleModuleChange(m)
    \/ now < ArrivalsEnd /\ ShowNotificationEvent("success", <<"Item added!">>)
    \/ AutoRemoveFires
    \/ TimePasses

SpecToastFair ==
    /\ Init
    /\ [][NextToastFair]_vars
    /\ WF_vars(AutoRemoveFires)
    /\ WF_vars(TimePasses)

-----------------------------------------------------------------------------
(* SpecRes: the resource module of one remote, call by call *)

ResRemote == "cart"

\* getResource(key, delayMs)
CallGetResource(key) ==
    /\ key \in DOMAIN resourceCache[ResRemote] \/ Len(resources) < MaxResources
    /\ LET g == getResource(resourceCache[ResRemote], resources, key)
       IN /\ resourceCache' = [resourceCache EXCEPT ![ResRemote] = g.cache]
          /\ resources' = g.res
          /\ lastCall' = [op |-> "getResource", key |-> key, ret |-> g.ret]
    /\ UNCHANGED <<shellVars, cartItems, listeners>>

\* createResource(asyncFn) with any asyncFn
CallCreateResource(fn) ==
    /\ Len(resources) < MaxResources
    /\ resources' = createResource(resources, fn)
    /\ lastCall' = [op |-> "createResource", ret |-> Len(resources) + 1]
    /\ UNCHANGED <<shellVars, resourceCache, cartItems, listeners>>

\* a completion callback that may run on a settled resource too
PromiseSettlesAgain(rid) ==
    /\ rid \in 1..Len(resources)
    /\ \E o \in Outcomes(resources[rid].fn) :
         /\ resources' = [resources EXCEPT ![rid] = Settled(@, o)]
         /\ lastCall' = [op |-> "settle", rid |-> rid, outcome |-> o]
    /\ UNCHANGED <<shellVars, resourceCache, cartItems, listeners>>

\* The promise of asyncFn() settles and the .then callback of the resource runs
PromiseSettles(rid) ==
    /\ rid \in 1..Len(resources)
    /\ resources[rid].status = "pending"
    /\ \E o \in Outcomes(resources[rid].fn) :
         /\ resources' = [resources EXCEPT ![rid] = Settled(@, o)]
         /\ lastCall' = [op |-> "settle", rid |-> rid, outcome |-> o]
    /\ UNCHANGED <<shellVars, resourceCache, cartItems, listeners>>

\* resource.read()
CallRead(rid) ==
    /\ rid \in 1..Len(resources)
    /\ lastCall' = [op |-> "read", rid |-> rid, outcome |-> Read(resources, rid)]
    /\ UNCHANGED <<shellVars, resourceCache, resources, cartItems, listeners>>

\* clearResourceCache()
CallClearResourceCache ==
    /\ resourceCache' = [resourceCache EXCEPT ![ResRemote] = clearResourceCache(@)]
    /\ lastCall' = [op |-> "clearResourceCache", before |-> resourceCache[ResRemote]]
    /\ UNCHANGED <<shellVars, resources, cartItems, listeners>>

NextRes ==
    \/ \E key \in Keys : CallGetResource(key)
    \/ \E fn \in {"delay", "generic"} : CallCreateResource(fn)
    \/ \E rid \in 1..Len(resources) : PromiseSettles(rid)
    \/ \E rid \in 1..Len(resources) : CallRead(rid)
    \/ CallClearResourceCache

SpecRes == Init /\ [][NextRes]_vars

-----------------------------------------------------------------------------
(* SpecCart: <ShoppingCart /> mounted on its own *)

InitCart ==
    /\ activeModule = "cart"
    /\ notifications = <<>>
    /\ timers = {}
    /\ now = 0
    /\ hasError = FALSE
    /\ error = NoError
    /\ lazy = [m \in Modules |-> "uninit"]
    /\ resourceCache = [m \in Modules |-> EmptyMap]
    /\ resources = <<>>
    /\ cartItems = INITIAL_CART_ITEMS
    /\ listeners = [t \in EventTypes |->
                      IF t = "addToCart" THEN <<"handleAddToCart">> ELSE <<>>]
    /\ lastCall = NoCall

CartIds == ProductIds \cup {AirPodsId}

CartCommit(s) ==
    /\ cartItems' = s.c
    /\ UNCHANGED <<shellVars, resourceCache, resources, listeners, lastCall>>

\* window.dispatchEvent(new CustomEvent("addToCart", { detail }))
AddToCartEvent(id, q) ==
    /\ InCart(id) => QuantityOf(id) + q <= MaxQuantity
    /\ CartCommit(dispatchEvent(listeners, "addToCart",
                                [CartItemOf(id) EXCEPT !.quantity = q], Page, now))

\* updateQuantity(id, delta)
CallUpdateQuantity(id, delta) ==
    /\ InCart(id) => QuantityOf(id) + delta <= MaxQuantity
    /\ CartCommit([Page EXCEPT !.c = updateQuantity(cartItems, id, delta)])

\* removeItem(id)
CallRemoveItem(id) ==
    CartCommit([Page EXCEPT !.c = removeItem(cartItems, id)])

NextCart ==
    \/ \E id \in CartIds, q \in 1..2 : AddToCartEvent(id, q)
    \/ \E id \in CartIds, delta \in {-1, 1} : CallUpdateQuantity(id, delta)
    \/ \E id \in CartIds : CallRemoveItem(id)

SpecCart == InitCart /\ [][NextCart]_vars

-----------------------------------------------------------------------------
(* SpecBus: the window as event bus.  The shell displays the loaded cart, so *)
(* that the App's showNotification listener and the cart's addToCart         *)
(* listener are registered; listeners are added and removed and events are   *)
(* dispatched on window from outside, as the tests do with their spies.      *)

InitBus ==
    /\ activeModule = "cart"
    /\ notifications = <<>>
    /\ timers = {}
    /\ now = 0
    /\ hasError = FALSE
    /\ error = NoError
    /\ lazy = [m \in Modules |-> IF m = "dashboard" THEN "uninit" ELSE "ready"]
    /\ resources = <<[status |-> "success", result |-> "undefined", fn |-> "delay"]>>
    /\ resourceCache = [m \in Modules |->
                          IF m = "cart" THEN [k \in {currentResourceKey("cart")} |-> 1]
                          ELSE EmptyMap]
    /\ cartItems = INITIAL_CART_ITEMS
    /\ listeners = [t \in EventTypes |->
                      CASE t = "addToCart" -> <<"handleAddToCart">>
                        [] t = "showNotification" -> <<"handleNotification">>
                        [] OTHER -> <<>>]
    /\ lastCall = NoCall

\* window.addEventListener(type, spy)
AddSpy(type, h) ==
    /\ listeners' = addEventListener(listeners, type, h)
    /\ lastCall' = [op |-> "addEventListener"]
    /\ UNCHANGED <<shellVars, resourceCache, resources, cartItems>>

\* window.removeEventListener(type, spy)
RemoveSpy(type, h) ==
    /\ listeners' = removeEventListener(listeners, type, h)
    /\ lastCall' = [op |-> "removeEventListener"]
    /\ UNCHANGED <<shellVars, resourceCache, resources, cartItems>>

\* window.dispatchEvent(new CustomEvent(type, { detail })), then React
\* commits the state updates the handlers asked for
DispatchOnWindow(type, detail) ==
    LET s == dispatchEvent(listeners, type, detail, Page, now)
    IN /\ \A i \in 1..Len(s.c) : s.c[i].quantity <= MaxQuantity
       /\ notifications' = s.n
       /\ cartItems' = s.c
       /\ timers' = IF s.t THEN AutoRemoveEffect(timers, s.n, now) ELSE timers
       /\ lastCall' = [op |-> "dispatchEvent", type |-> type, detail |-> detail,
                       calls |-> s.calls, reported |-> s.reported, returned |-> TRUE]
       /\ UNCHANGED <<activeModule, now, hasError, error, lazy, resourceCache,
                      resources, listeners>>

Details(type) ==
    CASE type = "addToCart" -> {CartItemOf(MaxProductId)}
      [] type = "showNotification" ->
            {[type |-> "success", message |-> <<"Item added!">>], NullDetail}
      [] OTHER -> {[newModule |-> m] : m \in Modules}

NextBus ==
    \/ \E type \in EventTypes, h \in Spies : AddSpy(type, h)
    \/ \E type \in EventTypes, h \in Spies : RemoveSpy(type, h)
    \/ \E type \in EventTypes : \E detail \in Details(type) : DispatchOnWindow(type, detail)

SpecBus == InitBus /\ [][NextBus]_vars

-----------------------------------------------------------------------------
(* SpecNav: the shell's navigation, with a spy listening to moduleChange    *)
(* registered before the App is rendered, as in App.test.tsx.               *)

\* NavigationButton: isActive={activeModule === module.id}, aria-pressed
isActive(m) == activeModule = m

InitNav ==
    /\ activeModule = "products"
    /\ notifications = <<>>
    /\ timers = {}
    /\ now = 0
    /\ hasError = FALSE
    /\ error = NoError
    /\ lazy = [m \in Modules |-> IF m = "products" THEN "pending" ELSE "uninit"]
    /\ resourceCache = [m \in Modules |-> EmptyMap]
    /\ resources = <<>>
    /\ cartItems = <<>>
    /\ listeners = [t \in EventTypes |->
                      CASE t = "showNotification" -> <<"handleNotification">>
                        [] t = "moduleChange" -> <<"spy1">>
                        [] OTHER -> <<>>]
    /\ lastCall = NoCall

\* The specifier the lazy loader imports, and the one handleMouseEnter
\* builds: `${id}/Streaming${Capitalized id}${suffix}`
LazySpecifier(m) ==
    CASE m = "products" -> <<"products", "/Streaming", "Products", "Catalog">>
      [] m = "cart" -> <<"cart", "/Streaming", "ShoppingCart">>
      [] m = "dashboard" -> <<"dashboard", "/Streaming", "UserDashboard">>

PrefetchSpecifier(m) ==
    <<m, "/Streaming", Capitalized(m),
      IF m = "products" THEN "Catalog"
      ELSE IF m = "cart" THEN "ShoppingCart" ELSE "UserDashboard">>

\* NavigationButton.handleMouseEnter: if (!isActive) import(...).catch(() => {})
MouseEnter(m) ==
    IF isActive(m)
    THEN UNCHANGED vars
    ELSE /\ lastCall' = [op |-> "prefetch", module |-> m, status |-> "pending"]
         /\ UNCHANGED <<shellVars, resourceCache, resources, cartItems, listeners>>

\* a prefetch whose failure is stored as the outcome of the remote's load
PrefetchSettlesIntoLazy(ok) ==
    /\ lastCall.op = "prefetch"
    /\ lastCall.status = "pending"
    /\ ok => PrefetchSpecifier(lastCall.module) = LazySpecifier(lastCall.module)
    /\ lastCall' = [lastCall EXCEPT !.status = IF ok THEN "loaded" ELSE "failed"]
    /\ lazy' = IF ok THEN lazy ELSE [lazy EXCEPT ![lastCall.module] = "fallback"]
    /\ UNCHANGED <<activeModule, notifications, timers, now, hasError, error,
                   resourceCache, resources, cartItems, listeners>>

\* The prefetch import settles: it can load only a module some remote
\* exposes; a rejection goes to the empty catch.
PrefetchSettles(ok) ==
    /\ lastCall.op = "prefetch"
    /\ lastCall.status = "pending"
    /\ ok => PrefetchSpecifier(lastCall.module) = LazySpecifier(lastCall.module)
    /\ lastCall' = [lastCall EXCEPT !.status = IF ok THEN "loaded" ELSE "failed"]
    /\ UNCHANGED <<shellVars, resourceCache, resources, cartItems, listeners>>

NextNav ==
    \/ \E m \in Modules : MouseEnter(m)
    \/ \E ok \in BOOLEAN : PrefetchSettles(ok)
    \/ \E m \in Modules : handleModuleChange(m)
    \/ \E m \in Modules, ok \in BOOLEAN : ImportSettles(m, ok)
    \/ \E rid \in 1..Len(resources) : DelayFires(rid)
    \/ ShowNotificationEvent("success", <<"Item added!">>)

SpecNav == InitNav /\ [][NextNav]_vars

-----------------------------------------------------------------------------
(* SpecProducts: the loaded products catalog is displayed; spies are        *)
(* registered on window for addToCart and showNotification, as in the       *)
(* catalog's test, and the Add buttons are clicked.                         *)

InitProducts ==
    /\ activeModule = "products"
    /\ notifications = <<>>
    /\ timers = {}
    /\ now = 0
    /\ hasError = FALSE
    /\ error = NoError
    /\ lazy = [m \in Modules |-> IF m = "products" THEN "ready" ELSE "uninit"]
    /\ resources = <<[status |-> "success", result |-> "undefined", fn |-> "delay"]>>
    /\ resourceCache = [m \in Modules |->
                          IF m = "products"
                          THEN [k \in {currentResourceKey("products")} |-> 1]
                          ELSE EmptyMap]
    /\ cartItems = <<>>
    /\ listeners = [t \in EventTypes |->
                      IF t = "showNotification" THEN <<"handleNotification">> ELSE <<>>]
    /\ lastCall = NoCall

CatalogEvents == {"addToCart", "showNotification"}

NextProducts ==
    \/ \E type \in CatalogEvents, h \in Spies : AddSpy(type, h)
    \/ \E type \in CatalogEvents, h \in Spies : RemoveSpy(type, h)
    \/ \E p \in ProductIds : AddToCartClick(p)

SpecProducts == InitProducts /\ [][NextProducts]_vars

-----------------------------------------------------------------------------
(* Claims about the resource module, checked under SpecRes *)

\* C1: a getResource(k) call on a key that is in the cache starts no factory
\* and returns the Resource already stored under k (pending or settled); a
\* call on a key that is not in the cache starts exactly one factory and
\* stores and returns the new, pending Resource.
C1_GetResourceOnce ==
    [][ lastCall'.op = "getResource" =>
          LET k == lastCall'.key
              cache == resourceCache[ResRemote]
          IN IF k \in DOMAIN cache
             THEN /\ lastCall'.ret = cache[k]
                  /\ resources' = resources
                  /\ resourceCache' = resourceCache
             ELSE /\ Len(resources') = Len(resources) + 1
                  /\ \A i \in 1..Len(resources) : resources'[i] = resources[i]
                  /\ lastCall'.ret = Len(resources')
                  /\ resources'[lastCall'.ret].status = "pending"
                  /\ resourceCache'[ResRemote][k] = lastCall'.ret
                  /\ \A j \in DOMAIN cache : resourceCache'[ResRemote][j] = cache[j]
      ]_vars

\* a getResource call that returned a Resource which had already settled
C1_Witness ==
    /\ lastCall.op = "getResource"
    /\ resources[lastCall.ret].status = "success"

\* C4: a Resource leaves "pending" at most once, to "success" or "error", and
\* only in the completion callback of its own promise; once settled, its
\* status and result never change and read() keeps the same outcome, whether
\* or not its key is still in the cache.
C4_SettlesOnce ==
    [][ \A rid \in 1..Len(resources) :
          /\ rid <= Len(resources')
          /\ resources[rid].status # "pending" =>
                /\ resources'[rid] = resources[rid]
                /\ Read(resources', rid) = Read(resources, rid)
          /\ resources'[rid] # resources[rid] =>
                /\ resources[rid].status = "pending"
                /\ resources'[rid].status \in {"success", "error"}
                /\ lastCall'.op = "settle"
                /\ lastCall'.rid = rid
      ]_vars

\* a rejected Resource, read after its key was cleared from the cache
C4_Witness ==
    /\ lastCall.op = "read"
    /\ resources[lastCall.rid].status = "error"
    /\ resourceCache[ResRemote] = EmptyMap

\* C5: read() throws the resource's own suspender while pending, returns the
\* value the promise resolved with, throws the error it rejected with; the
\* "Invalid resource state" branch is never taken; a read changes no state.
C5_ReadState ==
    /\ \A rid \in 1..Len(resources) :
          resources[rid].status \in {"pending", "success", "error"}
    /\ lastCall.op = "settle" =>
          Read(resources, lastCall.rid) =
             IF lastCall.outcome.kind = "resolve"
             THEN [kind |-> "return", what |-> "value", value |-> lastCall.outcome.value]
             ELSE [kind |-> "throw", what |-> "error", value |-> lastCall.outcome.value]
    /\ lastCall.op = "read" =>
          LET r == resources[lastCall.rid]
              o == lastCall.outcome
          IN /\ o.what = "error" => o.value \in Errors
             /\ r.status = "pending" =>
                   o = [kind |-> "throw", what |-> "suspender", value |-> lastCall.rid]
             /\ r.status = "success" =>
                   o = [kind |-> "return", what |-> "value", value |-> r.result]
             /\ r.status = "error" =>
                   o = [kind |-> "throw", what |-> "error", value |-> r.result]

C5_ReadOutcomes ==
    /\ []C5_ReadState
    /\ [][ lastCall'.op = "read" =>
              /\ resources' = resources
              /\ resourceCache' = resourceCache ]_vars

\* a read of a rejected resource, which threw the stored error
C5_Witness ==
    /\ lastCall.op = "read"
    /\ lastCall.outcome.kind = "throw"
    /\ lastCall.outcome.what = "error"
    /\ lastCall.outcome.value \in Errors

-----------------------------------------------------------------------------
(* Claims about the composed shell, checked under Spec *)

\* C2: a render error in one remote's subtree shows the error fallback for
\* that remote only: whenever the error fallback is displayed, the active
\* remote is the one whose render threw, so that selecting another remote
\* mounts that remote's skeleton or content.
C2_FaultIsolation ==
    hasError => error.remote = activeModule

\* C3: the promise given to the lazy loader never rejects: a failed import
\* resolves to the ModuleFallback component with the remote's own title and
\* message, and the ErrorBoundary never receives an import failure.
C3_ImportNeverRejects ==
    /\ \A m \in Modules : lazy[m] \in {"uninit", "pending", "ready", "fallback"}
    /\ hasError => error.msg \in Errors
    /\ (~hasError /\ lazy[activeModule] = "fallback") =>
          /\ View.kind = "ModuleFallback"
          /\ View.title = <<Capitalized(activeModule), " Module Unavailable">>
          /\ View.message = <<"The ", activeModule, " service is currently unavailable.">>
          /\ ~ContentShown(activeModule)

\* the import of the cart failed and its fallback component is displayed
C3_Witness ==
    /\ activeModule = "cart"
    /\ lazy["cart"] = "fallback"
    /\ ~hasError
    /\ View.title = <<"Cart", " Module Unavailable">>

\* C7 (state part): the boundary holds an error exactly when it is faulted,
\* and while it is faulted the fallback replaces the whole subtree.
C7_Faulted ==
    /\ hasError <=> error # NoError
    /\ hasError =>
          /\ View.kind = "ErrorFallback"
          /\ ~CartMounted
          /\ cartItems = <<>>

\* C7: the ErrorBoundary becomes faulted only when a render of its subtree
\* throws, and it stores that error; while faulted it keeps the error and
\* renders nothing of the subtree (no loader is started, no resource is
\* created); it leaves the faulted state only through Retry, which clears the
\* error and renders the subtree again.
C7_ErrorBoundary ==
    /\ []C7_Faulted
    /\ [][ /\ (~hasError /\ hasError') =>
                 /\ activeModule' = activeModule
                 /\ lazy[activeModule] = "ready"
                 /\ \E e \in Errors : error' = [remote |-> activeModule, msg |-> e]
           /\ (hasError /\ hasError') =>
                 /\ error' = error
                 /\ Len(resources') = Len(resources)
                 /\ resourceCache' = resourceCache
                 /\ \A m \in Modules : lazy[m] = "uninit" => lazy'[m] = "uninit"
           /\ (hasError /\ ~hasError') =>
                 /\ Retry
                 /\ error' = NoError
         ]_vars

\* the boundary is still faulted after another tab was selected
C7_Witness ==
    /\ hasError
    /\ error.remote # activeModule
    /\ lazy[activeModule] = "ready"

\* C8: a product added in the Products module is in the Cart's item list when
\* the Cart is viewed afterwards: while the toast "<name> added to cart" of a
\* product is displayed and the Cart is mounted, the cart holds that product
\* (with a quantity above the initial one for a product it started with).
C8_AddReachesCart ==
    \A p \in ProductIds :
       (/\ CartMounted
        /\ \E i \in 1..Len(notifications) :
              notifications[i].message = <<ProductName(p), " added to cart">>)
       => /\ InCart(p)
          /\ \A k \in 1..Len(INITIAL_CART_ITEMS) :
                INITIAL_CART_ITEMS[k].id = p => QuantityOf(p) > INITIAL_CART_ITEMS[k].quantity

-----------------------------------------------------------------------------
(* Claims about the cart, checked under SpecCart *)

\* C9: an addToCart event for product id p with quantity q, received by the
\* mounted cart, adds one new entry with quantity q after the existing ones
\* when no entry has id p, and otherwise adds q to the quantity of the entry
\* with id p; every other entry is left as it was, and no two entries ever
\* share an id.
C9_AddToCart ==
    /\ [](\A i, j \in 1..Len(cartItems) :
             cartItems[i].id = cartItems[j].id => i = j)
    /\ [][ \A id \in CartIds, q \in 1..2 :
             AddToCartEvent(id, q) =>
                IF InCart(id)
                THEN /\ Len(cartItems') = Len(cartItems)
                     /\ \A i \in 1..Len(cartItems) :
                           IF cartItems[i].id = id
                           THEN /\ cartItems'[i].quantity = cartItems[i].quantity + q
                                /\ cartItems'[i].id = id
                                /\ cartItems'[i].name = cartItems[i].name
                                /\ cartItems'[i].price = cartItems[i].price
                           ELSE cartItems'[i] = cartItems[i]
                ELSE /\ Len(cartItems') = Len(cartItems) + 1
                     /\ \A i \in 1..Len(cartItems) : cartItems'[i] = cartItems[i]
                     /\ cartItems'[Len(cartItems')].id = id
                     /\ cartItems'[Len(cartItems')].quantity = q
         ]_vars

\* product 2, not in the initial cart, is there once with quantity 2, after
\* the two initial entries, which are as they were
C9_Witness ==
    /\ Len(cartItems) = 3
    /\ cartItems[1] = INITIAL_CART_ITEMS[1]
    /\ cartItems[2] = INITIAL_CART_ITEMS[2]
    /\ cartItems[3].id = 2
    /\ cartItems[3].quantity = 2

-----------------------------------------------------------------------------
(* Claims about notifications in time, checked under SpecToast *)

\* C10: a notification is in the list from the instant of its event and is
\* removed 3 seconds after it appeared, whatever other notifications arrive
\* in between: no displayed notification is older than 3000 ms.
C10_RemovedAfter3s ==
    \A i \in 1..Len(notifications) :
       now <= notifications[i].id + DismissDelay

\* C11 (state part): at most 3 notifications are displayed, newest first
C11_AtMostThree ==
    /\ Len(notifications) <= 3
    /\ \A i, j \in 1..Len(notifications) :
          i < j => notifications[i].id >= notifications[j].id

\* C11: the notification list never holds more than 3 entries; a tab click
\* or a showNotification event puts the new notification first and keeps
\* only the first 2 of the previous list, in their order, so that the entry
\* dropped from a full list is the last, oldest one.
C11_KeepsNewestThree ==
    /\ []C11_AtMostThree
    /\ [][ /\ \A m \in Modules : handleModuleChange(m) =>
                /\ notifications'[1] = [id |-> now, type |-> "info",
                                        message |-> <<Capitalized(m), " module loaded">>]
                /\ Len(notifications') = Min(Len(notifications), 2) + 1
                /\ \A i \in 2..Len(notifications') : notifications'[i] = notifications[i - 1]
           /\ \A type \in NotificationTypes : ShowNotificationEvent(type, <<"Item added!">>) =>
                /\ notifications'[1] = [id |-> now, type |-> type,
                                        message |-> <<"Item added!">>]
                /\ Len(notifications') = Min(Len(notifications), 2) + 1
                /\ \A i \in 2..Len(notifications') : notifications'[i] = notifications[i - 1]
         ]_vars

\* a full list whose entries arrived at three different instants
C11_Witness ==
    /\ Len(notifications) = 3
    /\ notifications[1].id > notifications[2].id
    /\ notifications[2].id > notifications[3].id

-----------------------------------------------------------------------------
(* Claims about the composed shell, checked under Spec (continued) *)

\* C12: every switch to another remote makes a fresh attempt: right after
\* the click on the tab of a remote other than the active one, that remote's
\* content is not displayed yet (its skeleton is shown before its content).
C12_SkeletonOnEverySwitch ==
    [][ \A m \in Modules :
          (handleModuleChange(m) /\ m # activeModule) =>
             View'.kind # "Content" ]_vars

\* C13: the card displayed for a remote whose load failed offers a manual
\* retry action (the "Retry Connection" button).
C13_FallbackOffersRetry ==
    (~hasError /\ lazy[activeModule] = "fallback") =>
       (View.kind = "ModuleFallback" /\ View.retry)

\* C14: a remote whose import failed comes back without a page refresh: the
\* next time its tab is selected the shell no longer renders the
\* ModuleFallback resolved by the failed import but attempts the remote again.
C14_RemoteComesBack ==
    [][ \A m \in Modules :
          (handleModuleChange(m) /\ lazy[m] = "fallback" /\ ~hasError) =>
             View'.kind # "ModuleFallback" ]_vars

-----------------------------------------------------------------------------
(* Claims about the event bus, checked under SpecBus *)

\* C15 (state part): the invocations made by the last dispatch are those of
\* the listeners registered for its type, once each, in registration order,
\* all with the dispatched detail, and they are over when dispatchEvent
\* returns.
C15_Invocations ==
    lastCall.op = "dispatchEvent" =>
       /\ lastCall.returned
       /\ Len(lastCall.calls) = Len(listeners[lastCall.type])
       /\ \A i \in 1..Len(lastCall.calls) :
             /\ lastCall.calls[i].handler = listeners[lastCall.type][i]
             /\ lastCall.calls[i].detail = lastCall.detail
       /\ \A i, j \in 1..Len(lastCall.calls) :
             lastCall.calls[i].handler = lastCall.calls[j].handler => i = j

\* C15: a dispatch of type T invokes every handler registered for T exactly
\* once, in registration order, with the same detail, before it returns, and
\* no handler of another type: only a showNotification event changes the
\* notification list (by exactly one entry), only an addToCart event changes
\* the cart (by exactly one unit), a moduleChange event changes neither.
C15_DispatchByType ==
    /\ []C15_Invocations
    /\ [][ lastCall'.op = "dispatchEvent" =>
             /\ lastCall'.type # "showNotification" =>
                   (notifications' = notifications /\ timers' = timers)
             /\ lastCall'.type # "addToCart" => cartItems' = cartItems
             /\ (lastCall'.type = "showNotification" /\ ~IsNull(lastCall'.detail)) =>
                   /\ notifications'[1].message = lastCall'.detail.message
                   /\ notifications'[1].type = lastCall'.detail.type
                   /\ Len(notifications') = Min(Len(notifications), 2) + 1
                   /\ \A i \in 2..Len(notifications') : notifications'[i] = notifications[i - 1]
             /\ lastCall'.type = "addToCart" =>
                   LET id == lastCall'.detail.id
                       q == IF InCart(id) THEN QuantityOf(id) ELSE 0
                   IN \E i \in 1..Len(cartItems') :
                         /\ cartItems'[i].id = id
                         /\ cartItems'[i].quantity = q + 1
                         /\ \A j \in 1..Len(cartItems') :
                               cartItems'[j].id = id => j = i
         ]_vars

\* a dispatch that reached three listeners of its type, the spies in the
\* order of their registration (spy2 before spy1), while another type has
\* listeners of its own
C15_Witness ==
    /\ lastCall.op = "dispatchEvent"
    /\ lastCall.type = "showNotification"
    /\ Len(lastCall.calls) = 3
    /\ lastCall.calls[1].handler = "handleNotification"
    /\ lastCall.calls[2].handler = "spy2"
    /\ lastCall.calls[3].handler = "spy1"
    /\ Len(listeners["addToCart"]) >= 2
    /\ Len(listeners["moduleChange"]) >= 1

\* C16: when a handler throws during a dispatch, the exception leaves
\* dispatchEvent (the call does not return normally) and no handler
\* registered after the throwing one is invoked.
C16_ThrowStopsDispatch ==
    (lastCall.op = "dispatchEvent" /\ lastCall.reported # <<>>) =>
       /\ ~lastCall.returned
       /\ lastCall.calls[Len(lastCall.calls)].handler = lastCall.reported[1].handler

-----------------------------------------------------------------------------
(* Claims about the composed shell, checked under Spec (listeners) *)

\* C17 (state part): the listeners on window are exactly those of the
\* mounted components: the App's showNotification handler, and the cart's
\* addToCart handler exactly while the cart's content is displayed.
C17_ListenersOfMounted ==
    /\ listeners["showNotification"] = <<"handleNotification">>
    /\ listeners["moduleChange"] = <<>>
    /\ listeners["addToCart"] =
          IF activeModule = "cart" /\ View.kind = "Content"
          THEN <<"handleAddToCart">> ELSE <<>>
    /\ listeners["addToCart"] = <<>> => cartItems = <<>>

\* C17: every handler a component registers is unregistered when the
\* component unmounts, so that the registered handlers are always those of
\* the mounted components and an addToCart event dispatched while the cart is
\* not mounted reaches no cart handler.
C17_NoStaleListener ==
    /\ []C17_ListenersOfMounted
    /\ [][ \A p \in ProductIds :
             AddToCartClick(p) => (cartItems = <<>> /\ cartItems' = <<>>) ]_vars

\* the cart was displayed and left, its handler is gone, and an addToCart
\* event has been dispatched from the products since
C17_Witness ==
    /\ activeModule = "products"
    /\ lazy["cart"] = "ready"
    /\ currentResourceKey("cart") \in DOMAIN resourceCache["cart"]
    /\ resources[resourceCache["cart"][currentResourceKey("cart")]].status = "success"
    /\ listeners["addToCart"] = <<>>
    /\ Len(notifications) >= 1
    /\ notifications[1].message = <<ProductName(2), " added to cart">>

-----------------------------------------------------------------------------
(* Claims about navigation, checked under SpecNav *)

\* C18 (state part): exactly one tab is pressed
C18_OneActive ==
    /\ activeModule \in Modules
    /\ Cardinality({m \in Modules : isActive(m)}) = 1

\* C18: the active module is products at first; each click on the tab of
\* module m makes m the active module and dispatches exactly one moduleChange
\* event, whose detail is {newModule: m}, received once by the listener; the
\* active module changes in no other way, and exactly one module is active
\* in every state.
C18_TabClick ==
    /\ activeModule = "products"
    /\ []C18_OneActive
    /\ [][ /\ \A m \in Modules :
                handleModuleChange(m) =>
                   /\ activeModule' = m
                   /\ lastCall'.op = "events"
                   /\ Len(lastCall'.events) = 1
                   /\ lastCall'.events[1].type = "moduleChange"
                   /\ lastCall'.events[1].detail = [newModule |-> m]
                   /\ lastCall'.events[1].calls =
                         <<[handler |-> "spy1", detail |-> [newModule |-> m]]>>
           /\ activeModule' # activeModule =>
                \E m \in Modules : handleModuleChange(m)
         ]_vars

\* the dashboard tab was clicked while the cart was displayed, and the
\* listener received {newModule: "dashboard"}
C18_Witness ==
    /\ activeModule = "dashboard"
    /\ lastCall.op = "events"
    /\ lastCall.events[1].detail = [newModule |-> "dashboard"]
    /\ Len(notifications) >= 2
    /\ notifications[2].message = <<"Cart", " module loaded">>

-----------------------------------------------------------------------------
(* Claims about the composed shell, checked under Spec (suspension) *)

\* the active remote's code, or the resource its component reads, is pending
C19_ActivePending ==
    \/ lazy[activeModule] = "pending"
    \/ /\ lazy[activeModule] = "ready"
       /\ currentResourceKey(activeModule) \in DOMAIN resourceCache[activeModule]
       /\ Read(resources, resourceCache[activeModule][currentResourceKey(activeModule)])
             = [kind |-> "throw", what |-> "suspender",
                value |-> resourceCache[activeModule][currentResourceKey(activeModule)]]

\* C19 (state part): while the boundary is healthy and the active remote is
\* pending, the view is the skeleton of the active module; an unknown id
\* gets the products skeleton.
C19_SkeletonOfActive ==
    /\ (~hasError /\ C19_ActivePending) =>
          View = [kind |-> "Skeleton",
                  skeleton |-> CASE activeModule = "products" -> "ProductsSkeleton"
                                 [] activeModule = "cart" -> "CartSkeleton"
                                 [] activeModule = "dashboard" -> "DashboardSkeleton"]
    /\ getSkeleton("settings") = "ProductsSkeleton"

\* C19: while the active remote's code or resource is pending the skeleton
\* selected by the active module id is shown (products, cart, dashboard;
\* products for any other id), and pendingness never faults the
\* ErrorBoundary: it becomes faulted only by an error thrown in render.
C19_PendingIsNotFailure ==
    /\ []C19_SkeletonOfActive
    /\ [][ (~hasError /\ hasError') => \E e \in Errors : RenderThrows(e) ]_vars

\* the dashboard's code is loaded, its resource is pending, its skeleton is shown
C19_Witness ==
    /\ activeModule = "dashboard"
    /\ lazy["dashboard"] = "ready"
    /\ C19_ActivePending
    /\ ~hasError
    /\ View.skeleton = "DashboardSkeleton"

-----------------------------------------------------------------------------
(* Claims about navigation, checked under SpecNav (continued) *)

\* C20 (state part): while the skeleton of a pending remote is shown, every
\* tab can be clicked and a showNotification event can be delivered.
C20_NotBlocked ==
    View.kind = "Skeleton" =>
       /\ \A m \in Modules : ENABLED handleModuleChange(m)
       /\ ENABLED ShowNotificationEvent("success", <<"Item added!">>)

\* C20: suspension is scoped to the remote's subtree: while the active
\* remote is pending, a tab click still makes the clicked module active and
\* a showNotification event still puts its toast first in the list, without
\* touching the pending remote.
C20_SuspensionIsScoped ==
    /\ []C20_NotBlocked
    /\ [][ View.kind = "Skeleton" =>
             /\ \A m \in Modules :
                   handleModuleChange(m) =>
                      /\ activeModule' = m
                      /\ notifications'[1].message = <<Capitalized(m), " module loaded">>
             /\ ShowNotificationEvent("success", <<"Item added!">>) =>
                   /\ notifications'[1] = [id |-> now, type |-> "success",
                                           message |-> <<"Item added!">>]
                   /\ activeModule' = activeModule
                   /\ lazy' = lazy
                   /\ resources' = resources
                   /\ View'.kind = "Skeleton"
         ]_vars

\* a toast was added while the cart's resource is pending and its skeleton shown
C20_Witness ==
    /\ activeModule = "cart"
    /\ lazy["cart"] = "ready"
    /\ View = [kind |-> "Skeleton", skeleton |-> "CartSkeleton"]
    /\ Len(notifications) >= 1
    /\ notifications[1].message = <<"Item added!">>

-----------------------------------------------------------------------------
(* Claims about navigation, checked under SpecNav (prefetch) *)

\* C21: a hover starts a prefetch only on a tab that is not the active one,
\* and neither the start of a prefetch nor its success or failure changes
\* the active module, the notifications, the ErrorBoundary, the lazy
\* components or the view: a failed prefetch shows nothing, the failure
\* appears only when the tab is clicked and the real import fails.
C21_PrefetchInvisible ==
    [][ /\ \A m \in Modules :
              (MouseEnter(m) /\ isActive(m)) => UNCHANGED vars
        /\ \A m \in Modules :
              (MouseEnter(m) /\ ~isActive(m)) =>
                 lastCall' = [op |-> "prefetch", module |-> m, status |-> "pending"]
        /\ ((\E m \in Modules : MouseEnter(m)) \/ (\E ok \in BOOLEAN : PrefetchSettles(ok))) =>
              /\ activeModule' = activeModule
              /\ notifications' = notifications
              /\ timers' = timers
              /\ hasError' = hasError
              /\ error' = error
              /\ lazy' = lazy
              /\ resources' = resources
              /\ View' = View
      ]_vars

\* the prefetch of the cart failed while the products are displayed: the
\* cart has not been attempted and nothing shows the failure
C21_Witness ==
    /\ lastCall = [op |-> "prefetch", module |-> "cart", status |-> "failed"]
    /\ activeModule = "products"
    /\ View = [kind |-> "Content", remote |-> "products"]
    /\ lazy["cart"] = "uninit"
    /\ notifications = <<>>
    /\ ~hasError

-----------------------------------------------------------------------------
(* Claims about the cart, checked under SpecCart (continued) *)

\* C22: every cart entry has quantity >= 1 after any sequence of addToCart
\* events with quantity >= 1, quantity updates and removals; a decrement of
\* an entry whose quantity is 1 leaves it at 1.
C22_QuantityAtLeastOne ==
    /\ [](\A i \in 1..Len(cartItems) : cartItems[i].quantity >= 1)
    /\ [][ \A id \in CartIds :
             (CallUpdateQuantity(id, -1) /\ InCart(id)) =>
                \E i \in 1..Len(cartItems') :
                   /\ cartItems'[i].id = id
                   /\ cartItems'[i].quantity =
                         IF QuantityOf(id) = 1 THEN 1 ELSE QuantityOf(id) - 1
         ]_vars

\* both initial entries are at quantity 1: the second one was decremented
C22_Witness ==
    /\ Len(cartItems) = 2
    /\ cartItems[1].quantity = 1
    /\ cartItems[2].id = AirPodsId
    /\ cartItems[2].quantity = 1

-----------------------------------------------------------------------------
(* Claims about the products catalog, checked under SpecProducts *)

\* C23: a click on a product's Add button dispatches, within the click,
\* exactly one addToCart event whose detail is {id, name, price, quantity: 1}
\* of that product and then exactly one showNotification event of type
\* success whose message names the product; every spy registered for one of
\* the two types is invoked exactly once for it, with that detail.
C23_AddClickEvents ==
    [][ \A p \in ProductIds :
          (AddToCartClick(p) /\ \E h \in Spies, t \in CatalogEvents :
                                   \E i \in 1..Len(listeners[t]) : listeners[t][i] = h)
          => /\ lastCall'.op = "events"
             /\ Len(lastCall'.events) = 2
             /\ LET e1 == lastCall'.events[1]
                    e2 == lastCall'.events[2]
                    C23_CallsOf(h, calls) == {i \in 1..Len(calls) : calls[i].handler = h}
                IN /\ e1.type = "addToCart"
                   /\ e1.detail = [id |-> p, name |-> ProductName(p),
                                   price |-> ProductPrice(p), quantity |-> 1]
                   /\ e2.type = "showNotification"
                   /\ e2.detail = [type |-> "success",
                                   message |-> <<ProductName(p), " added to cart">>]
                   /\ \A h \in Spies :
                        /\ Cardinality(C23_CallsOf(h, e1.calls)) =
                              IF \E i \in 1..Len(listeners["addToCart"]) :
                                    listeners["addToCart"][i] = h
                              THEN 1 ELSE 0
                        /\ Cardinality(C23_CallsOf(h, e2.calls)) =
                              IF \E i \in 1..Len(listeners["showNotification"]) :
                                    listeners["showNotification"][i] = h
                              THEN 1 ELSE 0
                        /\ \A i \in C23_CallsOf(h, e1.calls) : e1.calls[i].detail = e1.detail
                        /\ \A i \in C23_CallsOf(h, e2.calls) : e2.calls[i].detail = e2.detail
      ]_vars

\* Add was clicked on the Laptop with one spy on each of the two events
C23_Witness ==
    /\ lastCall.op = "events"
    /\ Len(lastCall.events) = 2
    /\ lastCall.events[1].detail.id = 1
    /\ \E i \in 1..Len(lastCall.events[1].calls) :
          lastCall.events[1].calls[i].handler = "spy1"
    /\ \E i \in 1..Len(lastCall.events[2].calls) :
          lastCall.events[2].calls[i].handler = "spy2"
    /\ Len(notifications) >= 1
    /\ notifications[1].message = <<"Laptop", " added to cart">>

-----------------------------------------------------------------------------
(* Claims about the lifetime of the resources, checked under Spec *)

\* the remote's resource has resolved
C24_Resolved(m) ==
    /\ currentResourceKey(m) \in DOMAIN resourceCache[m]
    /\ resources[resourceCache[m][currentResourceKey(m)]].status = "success"

C25_Pending(m) ==
    /\ currentResourceKey(m) \in DOMAIN resourceCache[m]
    /\ resources[resourceCache[m][currentResourceKey(m)]].status = "pending"

-----------------------------------------------------------------------------
(* Claims about the notifications, checked under SpecToast (continued) *)

\* C26: the ids of the notifications displayed together are pairwise
\* distinct.  (An id is Date.now().toString(); the decimal rendering is
\* one-to-one, so two ids are equal exactly when the two clock readings are.)
C26_IdsDistinct ==
    \A i, j \in 1..Len(notifications) :
       i # j => notifications[i].id # notifications[j].id

-----------------------------------------------------------------------------
(* Claims about the auto-dismiss timer, checked under SpecToastFair *)

-----------------------------------------------------------------------------
(* Claims about the termination of the resource wait, checked under SpecFair *)

-----------------------------------------------------------------------------
(* Claims about the cart's entries, checked under SpecCart (continued) *)

\* C29: from the initial entries with ids 1 and 7, no sequence of addToCart
\* events, quantity updates and removals gives two entries the same id: a
\* quantity update keeps the ids and their order, a removal keeps the other
\* entries in order; an update or a removal that names an id which is not in
\* the cart leaves the cart as it is.
C29_DistinctIds ==
    /\ InitCart => (Len(cartItems) = 2 /\ cartItems[1].id = 1 /\ cartItems[2].id = 7)
    /\ [](Cardinality({cartItems[i].id : i \in 1..Len(cartItems)}) = Len(cartItems))
    /\ [][ \A id \in CartIds :
             /\ \A delta \in {-1, 1} :
                  CallUpdateQuantity(id, delta) =>
                     /\ Len(cartItems') = Len(cartItems)
                     /\ \A i \in 1..Len(cartItems) :
                          /\ cartItems'[i].id = cartItems[i].id
                          /\ cartItems[i].id # id => cartItems'[i] = cartItems[i]
                     /\ ~InCart(id) => cartItems' = cartItems
             /\ CallRemoveItem(id) =>
                     /\ \A i \in 1..Len(cartItems') : cartItems'[i].id # id
                     /\ Len(cartItems') = Len(cartItems) - (IF InCart(id) THEN 1 ELSE 0)
                     /\ \A i \in 1..Len(cartItems) :
                          cartItems[i].id # id =>
                             \E j \in 1..Len(cartItems') : cartItems'[j] = cartItems[i]
                     /\ ~InCart(id) => cartItems' = cartItems
         ]_vars

\* entry 1 was removed and product 2 never added: an update or a removal
\* naming 1 or 2 now names an id that is not in the cart
C29_Witness ==
    /\ Len(cartItems) = 1
    /\ cartItems[1].id = AirPodsId
    /\ ~InCart(MacBookId)
    /\ ~InCart(2)
    /\ ENABLED CallRemoveItem(MacBookId)
    /\ ENABLED CallUpdateQuantity(2, 1)

-----------------------------------------------------------------------------
(* Claims about the cart in the composed shell, checked under Spec *)

====
